---- MODULE Spec2Model ----
(***************************************************************************)
(* Transcriptome-App: the analysis session of App.tsx (React state, the    *)
(* asynchronous handlers and the controls that start them), the shared     *)
(* RService backend (package installation, engine evaluations) and the     *)
(* Heatmap component's clustering effect.                                  *)
(*                                                                         *)
(* A handler that awaits is split at its awaits: the synchronous part up   *)
(* to the first await is one action, every continuation is one action on   *)
(* the task record that holds what the closure captured.  React state is   *)
(* read by a handler from the render it was created in, so a task carries  *)
(* the values captured at its start.  The status-line text                 *)
(* (loadingMessage) and the console log are display strings and are not    *)
(* part of the state.                                                      *)
(***************************************************************************)
EXTENDS Integers, Sequences, FiniteSets, TLC

\* ---------------------------------------------------------------- bounds
MaxTasks == 2
MaxUserOps == 3
MaxLoads == 4

\* ------------------------------------------------------- program constants
InitialPValueThreshold == 50

\* ---------------------------------------------------------- input fixtures
\* count-matrix files a user can pick: 1 has gene symbols, 2 has Ensembl ids
\* (needs translation), 3 does not parse to any row
MatrixFiles == {1, 2, 3}
\* metadata files: 1 labels samples A, B, C; 2 has no data row
MetaFiles == {1, 2}
\* slider positions of the adjusted-p-value threshold, in 1/1000
Thresholds == {10, 50}
Methods == {"ward.D2", "complete"}
Databases == {"GO", "KEGG"}

Packages == {"BiocManager", "DESeq2", "clusterProfiler", "org.Hs.eg.db", "vsn"}

NoError == "none"
NoName == ""
NoVal == [m |-> 0, s |-> 0, a |-> "", b |-> ""]
NoSig == [data |-> NoVal, thr |-> 0]
NoGseaVal == [src |-> NoVal, db |-> "", empty |-> FALSE]
NoGsea == [db |-> "", results |-> NoGseaVal]
NoAnalysis == [type |-> "none", sig |-> NoSig, gsea |-> NoGsea]
NoOrder == [genes |-> <<>>, by |-> "none"]

VARIABLES
    packageStatus,      \* RService.packageStatus
    tasks,              \* in-flight asynchronous invocations
    countMatrix,        \* 0 = null, else the matrix parsed from that file
    sampleMetadata,     \* 0 = null, else the metadata parsed from that file
    isLoading,
    error,
    dataFileName,       \* 0 = ''
    metadataFileName,   \* 0 = ''
    isRReady,
    degResults,         \* <<>> = null, else the entries in insertion order
    gseaResults,        \* set of [cmp, db, res]; one entry per (cmp, db)
    currentAnalysis,
    currentComparison,  \* "" = null
    pValueThreshold,
    hmMounted,          \* a Heatmap instance is rendered
    hmOrdered,          \* Heatmap.orderedGenes
    hmMethod,           \* Heatmap.clusteringMethod
    hmLoading,          \* Heatmap.isLoading
    hmError,            \* Heatmap.error
    ops,                \* user interactions so far: [user, load]
    gseaDone,           \* history: [cmp, db, res] of the GSEA requests that completed successfully since the cache was last cleared
    lastOp,             \* history: what the last step did
    fnCall              \* one call of a pure function: [fn, in, done, out]

rVars == <<packageStatus>>
appVars == <<countMatrix, sampleMetadata, isLoading, error,
             dataFileName, metadataFileName, isRReady, degResults, gseaResults,
             currentAnalysis, currentComparison, pValueThreshold>>
hmVars == <<hmMounted, hmOrdered, hmMethod, hmLoading, hmError>>
histVars == <<gseaDone, lastOp>>
\* everything but the pure-function call
sessionVars == <<packageStatus, tasks, countMatrix, sampleMetadata, isLoading,
                 error, dataFileName, metadataFileName, isRReady,
                 degResults, gseaResults, currentAnalysis, currentComparison,
                 pValueThreshold, hmMounted, hmOrdered, hmMethod, hmLoading, hmError,
                 ops, gseaDone, lastOp>>
NoCall == [fn |-> "none", in |-> <<>>, done |-> FALSE, out |-> <<>>]
vars == <<packageStatus, tasks, countMatrix, sampleMetadata, isLoading,
          error, dataFileName, metadataFileName, isRReady,
          degResults, gseaResults, currentAnalysis, currentComparison,
          pValueThreshold, hmMounted, hmOrdered, hmMethod, hmLoading, hmError,
          ops, gseaDone, lastOp, fnCall>>

\* ------------------------------------------------------------ task records
TaskIds == 1..MaxTasks

BlankTask ==
    [id |-> 0, kind |-> "", phase |-> "", pkg |-> "", comps |-> <<>>,
     acc |-> <<>>, m |-> 0, s |-> 0, thr |-> 0, cmp |-> "", db |-> "",
     data |-> NoVal, genes |-> <<>>, method |-> "", live |-> FALSE,
     file |-> 0, k |-> 0, running |-> {}]

FreeIds(ts) == TaskIds \ {t.id : t \in ts}
HasRoom(ts) == FreeIds(ts) # {}
NewId(ts) ==
    IF FreeIds(ts) = {} THEN 0
    ELSE CHOOSE i \in FreeIds(ts) : \A j \in FreeIds(ts) : i <= j

Replace(ts, old, new) == (ts \ {old}) \cup {new}

\* ------------------------------------------------------------- fixtures
\* identifier namespace parseCountMatrix detects in each file
IdType(f) == IF f = 1 THEN "symbol" ELSE IF f = 2 THEN "ensembl" ELSE "unknown"
\* rows of the matrix each file ends up as (file 3 parses to no row)
MatrixGenes(m) == IF m = 1 THEN {"g1", "g2", "g3"} ELSE IF m = 2 THEN {"g1", "g2"} ELSE {}
\* condition labels of each metadata file, in order of first appearance
Conditions(s) == IF s = 1 THEN <<"A", "B", "C">> ELSE <<>>

SeqToSet(q) == {q[i] : i \in 1..Len(q)}

\* the DE result list of one comparison stands for itself: which inputs it
\* was computed from
DeVal(m, s, a, b) == [m |-> m, s |-> s, a |-> a, b |-> b]
\* the lists getSignificantGenes derives from a result list
UpGenes(data, thr) == IF thr >= 50 THEN <<"g1", "g2">> ELSE <<>>
DownGenes(data, thr) == IF thr >= 50 /\ data.m = 1 THEN <<"g3">> ELSE <<>>

HeatmapTop == 20
Min(a, b) == IF a < b THEN a ELSE b
TopN(q, n) == SubSeq(q, 1, Min(n, Len(q)))

\* getSignificantGenes(data, pValueThreshold) as carried by an AnalysisResult
SignificantGenes(data, thr) == [data |-> data, thr |-> thr]
\* Heatmap.initialGenes = [...up, ...down] of the props ResultsDisplay passes
InitialGenes(an) ==
    IF an.sig = NoSig THEN <<>>
    ELSE TopN(UpGenes(an.sig.data, an.sig.thr), HeatmapTop)
           \o TopN(DownGenes(an.sig.data, an.sig.thr), HeatmapTop)

\* degResults[name], NoVal when there is no such key
Lookup(deg, name) ==
    IF \E i \in 1..Len(deg) : deg[i].name = name
    THEN deg[CHOOSE i \in 1..Len(deg) : deg[i].name = name].val
    ELSE NoVal
\* allResults[name] = val on an object: a new key is appended, an existing
\* key keeps its position
Store(deg, name, val) ==
    IF \E i \in 1..Len(deg) : deg[i].name = name
    THEN [i \in 1..Len(deg) |-> IF deg[i].name = name THEN [name |-> name, val |-> val] ELSE deg[i]]
    ELSE Append(deg, [name |-> name, val |-> val])
Keys(deg) == [i \in 1..Len(deg) |-> deg[i].name]

ComparisonName(comp) == comp.B \o "_vs_" \o comp.A

\* const currentDegData = currentComparison && degResults ? degResults[currentComparison] : null
CurrentDegData(cmp, deg) == IF cmp # NoName /\ deg # <<>> THEN Lookup(deg, cmp) ELSE NoVal

\* ---------------------------------------------------------------- RService
\* ensurePackage on entry: return at once, poll while another caller
\* installs, or issue the install command
EnsurePhaseNoWait(ps, pkg) ==
    IF ps[pkg] = "installed" THEN "ready" ELSE "install"

EnsurePhase(ps, pkg) ==
    IF ps[pkg] = "installed" THEN "ready"
    ELSE IF ps[pkg] = "installing" THEN "pkgwait"
    ELSE "install"

EnsureStatus(ps, pkg) ==
    IF EnsurePhase(ps, pkg) = "install" THEN [ps EXCEPT ![pkg] = "installing"] ELSE ps

\* the package a run ensures after pkg ("" when pkg was the last one)
NextPkg(kind, pkg) ==
    IF kind = "gsea" /\ pkg = "clusterProfiler" THEN "org.Hs.eg.db" ELSE ""
FirstPkg(kind) ==
    IF kind = "primary" THEN "DESeq2"
    ELSE IF kind = "cluster" THEN "vsn"
    ELSE "clusterProfiler"

\* a run calls ensurePackage(pkg): the task and package status that result
EnterLast(t, ps, pkg) ==
    LET ph == EnsurePhase(ps, pkg) IN
    IF ph = "ready"
    THEN [t |-> [t EXCEPT !.phase = "eval", !.pkg = ""], ps |-> ps]
    ELSE [t |-> [t EXCEPT !.phase = ph, !.pkg = pkg], ps |-> EnsureStatus(ps, pkg)]

Enter(t, ps, pkg) ==
    LET ph == EnsurePhase(ps, pkg) IN
    IF ph = "ready"
    THEN IF NextPkg(t.kind, pkg) # ""
         THEN EnterLast(t, ps, NextPkg(t.kind, pkg))
         ELSE [t |-> [t EXCEPT !.phase = "eval", !.pkg = ""], ps |-> ps]
    ELSE [t |-> [t EXCEPT !.phase = ph, !.pkg = pkg], ps |-> EnsureStatus(ps, pkg)]

\* if (this.packageStatus['BiocManager'] !== 'installed') throw ...
InitializedUnchecked(ps) == TRUE

Initialized(ps) == ps["BiocManager"] = "installed"

\* getClusteredOrder: geneSymbols that have a row in the matrix
Relevant(m, genes) == SelectSeq(genes, LAMBDA g : g \in MatrixGenes(m))
ClusterMin == 3

\* the leaf order the engine returns for the rows it was given
Reverse(q) == [i \in 1..Len(q) |-> q[Len(q) + 1 - i]]
ClusterOrder(rows, method) == IF method = "ward.D2" THEN Reverse(rows) ELSE rows

\* Heatmap.clusterGenes up to its first real suspension
ClusterCall(ts, ps, m, genes, method) ==
    IF genes = <<>> THEN [res |-> "skip", ts |-> ts, ps |-> ps]
    ELSE IF ~Initialized(ps) THEN [res |-> "throw", ts |-> ts, ps |-> ps]
    ELSE LET ph == EnsurePhase(ps, "vsn") IN
         IF ph = "ready" /\ Len(Relevant(m, genes)) < ClusterMin
         THEN [res |-> "input", ts |-> ts, ps |-> ps]
         ELSE IF ~HasRoom(ts) THEN [res |-> "full", ts |-> ts, ps |-> ps]
         ELSE [res |-> "task",
               ts |-> ts \cup {[BlankTask EXCEPT !.id = NewId(ts), !.kind = "cluster",
                                   !.phase = IF ph = "ready" THEN "eval" ELSE ph,
                                   !.pkg = IF ph = "ready" THEN "" ELSE "vsn",
                                   !.m = m, !.genes = genes, !.method = method,
                                   !.live = TRUE]},
               ps |-> EnsureStatus(ps, "vsn")]

\* ResultsDisplay renders <Heatmap>
HeatmapShown(ld, rr, err, an, cmp, deg, cm) ==
    /\ ~(ld \/ ~rr)
    /\ err = NoError
    /\ an # NoAnalysis
    /\ CurrentDegData(cmp, deg) # NoVal
    /\ an.type = "heatmap"
    /\ an.sig # NoSig
    /\ cm # 0

Detach(ts) == {IF t.kind = "cluster" THEN [t EXCEPT !.live = FALSE] ELSE t : t \in ts}

\* The commit that follows an App state change.  ts and ps are the tasks and
\* package status the step leaves; the Heatmap is mounted, unmounted or
\* re-rendered, and its effect runs clusterGenes when it is mounted or when
\* the parent re-rendered (up/down are fresh arrays on every render).
Render(ts, ps) ==
    LET shown == HeatmapShown(isLoading', isRReady', error', currentAnalysis',
                              currentComparison', degResults', countMatrix')
        genes == InitialGenes(currentAnalysis')
        fresh == ~hmMounted
        call == ClusterCall(IF fresh THEN Detach(ts) ELSE ts, ps, countMatrix', genes,
                            IF fresh THEN "ward.D2" ELSE hmMethod)
        base == IF fresh THEN NoOrder ELSE hmOrdered
    IN
    IF ~shown
    THEN /\ tasks' = Detach(ts)
         /\ packageStatus' = ps
         /\ hmMounted' = FALSE
         /\ hmOrdered' = NoOrder
         /\ hmMethod' = "ward.D2"
         /\ hmLoading' = FALSE
         /\ hmError' = NoError
    ELSE IF hmMounted /\ appVars' = appVars
    THEN /\ tasks' = ts
         /\ packageStatus' = ps
         /\ UNCHANGED hmVars
    ELSE /\ call.res # "full"
         /\ tasks' = call.ts
         /\ packageStatus' = call.ps
         /\ hmMounted' = TRUE
         /\ hmMethod' = IF fresh THEN "ward.D2" ELSE hmMethod
         /\ hmOrdered' = IF call.res \in {"throw", "input"}
                         THEN [genes |-> genes, by |-> "input"] ELSE base
         /\ hmLoading' = IF call.res = "task" THEN TRUE
                         ELSE IF call.res = "skip" THEN (IF fresh THEN FALSE ELSE hmLoading)
                         ELSE FALSE
         /\ hmError' = IF call.res = "throw" THEN "Clustering failed"
                       ELSE IF call.res = "skip" THEN (IF fresh THEN NoError ELSE hmError)
                       ELSE NoError

\* ------------------------------------------------------------ history
Op(op, called, wasDone, acc) ==
    [op |-> op, called |-> called, wasDone |-> wasDone, acc |-> acc]
Other == Op("other", FALSE, FALSE, <<>>)
\* a GSEA request for (cmp, db) completed successfully since the cache was
\* last cleared
Completed(cmp, db) == \E e \in gseaDone : e.cmp = cmp /\ e.db = db

\* one more user interaction, within the session's budget
UserOp == ops.user < MaxUserOps /\ ops' = [ops EXCEPT !.user = @ + 1] /\ UNCHANGED fnCall
\* one more upload or clear, within the session's budget
LoadOp == ops.load < MaxLoads /\ ops' = [ops EXCEPT !.load = @ + 1] /\ UNCHANGED fnCall

\* ------------------------------------------------------------------ Init
\* The state after the first render and the first run of the mount effect:
\* initializeR has called rService.init, which is waiting for WebR.
SessionInit ==
    /\ packageStatus = [p \in Packages |-> IF p = "BiocManager" THEN "installing" ELSE "not_installed"]
    /\ tasks = {[BlankTask EXCEPT !.id = 1, !.kind = "init", !.phase = "bringup"]}
    /\ countMatrix = 0
    /\ sampleMetadata = 0
    /\ isLoading = TRUE
    /\ error = NoError
    /\ dataFileName = 0
    /\ metadataFileName = 0
    /\ isRReady = FALSE
    /\ degResults = <<>>
    /\ gseaResults = {}
    /\ currentAnalysis = NoAnalysis
    /\ currentComparison = NoName
    /\ pValueThreshold = InitialPValueThreshold
    /\ hmMounted = FALSE
    /\ hmOrdered = NoOrder
    /\ hmMethod = "ward.D2"
    /\ hmLoading = FALSE
    /\ hmError = NoError
    /\ ops = [user |-> 0, load |-> 0]
    /\ gseaDone = {}
    /\ lastOp = Other

Init == SessionInit /\ fnCall = NoCall

\* --------------------------------------------------- initializeR / init
\* if (this.packageStatus['BiocManager'] !== 'not_installed') return;
InitReturnsAtOnceNever(ps) == FALSE

InitReturnsAtOnce(ps) == ps["BiocManager"] # "not_installed"

\* The mount effect runs again on the same App instance before the user
\* touches anything (the module-level rService outlives the effect's
\* cleanup): initializeR calls rService.init once more.
InitializeR ==
    /\ ops = [user |-> 0, load |-> 0]
    /\ IF InitReturnsAtOnce(packageStatus)
       THEN /\ isRReady' = TRUE
            /\ isLoading' = FALSE
            /\ UNCHANGED <<countMatrix, sampleMetadata, error, dataFileName, metadataFileName,
                           degResults, gseaResults, currentAnalysis, currentComparison,
                           pValueThreshold>>
            /\ Render(tasks, packageStatus)
       ELSE /\ HasRoom(tasks)
            /\ isLoading' = TRUE
            /\ UNCHANGED <<countMatrix, sampleMetadata, error, dataFileName, metadataFileName,
                           isRReady, degResults, gseaResults, currentAnalysis,
                           currentComparison, pValueThreshold>>
            /\ Render(tasks \cup {[BlankTask EXCEPT !.id = NewId(tasks), !.kind = "init",
                                                   !.phase = "bringup"]},
                      [packageStatus EXCEPT !["BiocManager"] = "installing"])
    /\ lastOp' = Other
    /\ UNCHANGED <<ops, gseaDone, fnCall>>

\* init's catch and initializeR's catch/finally
InitFailed(t) ==
    /\ error' = "Failed to initialize R environment"
    /\ isLoading' = FALSE
    /\ UNCHANGED <<countMatrix, sampleMetadata, dataFileName, metadataFileName, isRReady,
                   degResults, gseaResults, currentAnalysis, currentComparison,
                   pValueThreshold>>
    /\ Render(tasks \ {t}, [packageStatus EXCEPT !["BiocManager"] = "not_installed"])

\* waitForWebR, webR.init and the console channel come up (or one of them throws)
InitBringup(t, ok) ==
    /\ t \in tasks /\ t.kind = "init" /\ t.phase = "bringup"
    /\ IF ok
       THEN /\ UNCHANGED appVars
            /\ Render(Replace(tasks, t, [t EXCEPT !.phase = "install", !.pkg = "BiocManager"]),
                      packageStatus)
       ELSE InitFailed(t)
    /\ lastOp' = Other
    /\ UNCHANGED <<ops, gseaDone, fnCall>>

\* the BiocManager install command returns (or throws)
InitInstall(t, ok) ==
    /\ t \in tasks /\ t.kind = "init" /\ t.phase = "install"
    /\ IF ok
       THEN /\ isRReady' = TRUE
            /\ isLoading' = FALSE
            /\ UNCHANGED <<countMatrix, sampleMetadata, error, dataFileName, metadataFileName,
                           degResults, gseaResults, currentAnalysis, currentComparison,
                           pValueThreshold>>
            /\ Render(tasks \ {t}, [packageStatus EXCEPT !["BiocManager"] = "installed"])
       ELSE InitFailed(t)
    /\ lastOp' = Other
    /\ UNCHANGED <<ops, gseaDone, fnCall>>

\* ------------------------------------------------------- uploads, clears
\* ===================================== parseCountMatrix / remapMatrixToSymbols
MaxRows == 2
\* identifiers a file's first column can hold
RawIds == {"ENSG01.1", "ENSG01.2", "ENSG02", "TP53"}
\* the header's sample columns
Columns == {"s1", "s2"}
\* a cell: a count, or text parseInt turns into NaN (written -1 here)
NotANumber == -1
CellValues == {NotANumber, 1, 2}
Symbols == {"g1", "g2"}

\* IDENTIFIER_REGEX[ns].test(id) on the identifiers of the fixtures
Matches(ns, id) ==
    CASE ns = "ensembl" -> id \in {"ENSG01.1", "ENSG01.2", "ENSG02", "ENSG00000141510"}
      [] ns = "entrez"  -> id \in {"7157"}
      [] ns = "uniprot" -> id \in {"P04637"}
      [] ns = "symbol"  -> id \in {"TP53", "MYC", "7157", "P04637", "ENSG02"}
      [] OTHER -> FALSE

\* rawId.split('.')[0]
TrimVersion(id) == IF id \in {"ENSG01.1", "ENSG01.2"} THEN "ENSG01" ELSE id

\* x[sample] || 0 on a row object
CountOr0(row, sample) == IF sample \in DOMAIN row THEN row[sample] ELSE 0

\* the row object the first loop builds from a line: only numeric cells are
\* assigned
RawRow(cells) == [c \in {c \in Columns : cells[c] # NotANumber} |-> cells[c]]

\* ids.slice(0, 100)
DetectSample == 100

\* the else-if chain of the scoring loop: the namespace an id is counted for
ScoredAsOwnPattern(ns, id) == Matches(ns, id)

ScoredAs(ns, id) ==
    CASE ns = "ensembl" -> Matches("ensembl", id)
      [] ns = "entrez"  -> ~Matches("ensembl", id) /\ Matches("entrez", id)
      [] ns = "uniprot" -> ~Matches("ensembl", id) /\ ~Matches("entrez", id)
                              /\ Matches("uniprot", id)
      [] ns = "symbol"  -> ~Matches("ensembl", id) /\ ~Matches("entrez", id)
                              /\ ~Matches("uniprot", id) /\ Matches("symbol", id)
      [] OTHER -> FALSE

Score(ns, testIds) == Cardinality({i \in 1..Len(testIds) : ScoredAs(ns, testIds[i])})

\* scores.ensembl / testIds.length > 0.7 and so on, in tenths
DetectGeneIdentifier(ids) ==
    LET testIds == SubSeq(ids, 1, Min(DetectSample, Len(ids)))
        n == Len(testIds)
    IN IF 10 * Score("ensembl", testIds) > 7 * n THEN "ensembl"
       ELSE IF 10 * Score("uniprot", testIds) > 7 * n THEN "uniprot"
       ELSE IF 10 * Score("entrez", testIds) > 7 * n THEN "entrez"
       ELSE IF 10 * Score("symbol", testIds) > 5 * n THEN "symbol"
       ELSE "unknown"

\* The second loop of parseCountMatrix.  Every row object of matrix is one of
\* the objects of rawMatrix (matrix[finalId] = rawMatrix[rawId] stores the
\* reference), so the loop's state is rawMatrix itself (heap) and, per final
\* id, the raw id whose object it holds (owner).
MergeInto(heap, target, source) ==
    LET RECURSIVE Add(_, _)
        \* matrix[finalId][sample] = (matrix[finalId][sample] || 0) + (rawMatrix[rawId][sample] || 0)
        Add(h, cols) ==
            IF cols = {} THEN h
            ELSE LET c == CHOOSE x \in cols : TRUE
                     sum == CountOr0(h[target], c) + CountOr0(h[source], c)
                     row == [x \in DOMAIN h[target] \cup {c} |->
                                IF x = c THEN sum ELSE h[target][x]]
                 IN Add([h EXCEPT ![target] = row], cols \ {c})
    IN Add(heap, Columns)

RECURSIVE Collapse(_, _, _, _)
Collapse(rawGeneIds, idType, heap, owner) ==
    IF rawGeneIds = <<>> THEN [heap |-> heap, owner |-> owner]
    ELSE LET rawId == Head(rawGeneIds)
             finalId == IF idType = "ensembl" THEN TrimVersion(rawId) ELSE rawId
         IN IF finalId \in DOMAIN owner
            THEN Collapse(Tail(rawGeneIds), idType, MergeInto(heap, owner[finalId], rawId), owner)
            ELSE Collapse(Tail(rawGeneIds), idType, heap,
                          [f \in DOMAIN owner \cup {finalId} |->
                              IF f = finalId THEN rawId ELSE owner[f]])

\* parseCountMatrix on the lines below the header; a line is [id, cells]
ParseCountMatrix(lines) ==
    LET rawGeneIds == [i \in 1..Len(lines) |-> lines[i].id]
        ids == {lines[i].id : i \in 1..Len(lines)}
        \* rawMatrix[geneId] = {} and its cells: the last line of an id wins
        rawMatrix == [id \in ids |->
                        RawRow(lines[CHOOSE i \in 1..Len(lines) :
                                        /\ lines[i].id = id
                                        /\ \A j \in (i + 1)..Len(lines) : lines[j].id # id].cells)]
        identifierType == DetectGeneIdentifier(rawGeneIds)
        end == Collapse(rawGeneIds, identifierType, rawMatrix, <<>>)
    IN [matrix |-> [f \in DOMAIN end.owner |-> end.heap[end.owner[f]]],
        identifierType |-> identifierType]

\* Object.keys(matrix): the final ids in the order they were first stored
RECURSIVE FirstSeen(_, _)
FirstSeen(ids, idType) ==
    IF ids = <<>> THEN <<>>
    ELSE LET rest == FirstSeen(SubSeq(ids, 1, Len(ids) - 1), idType)
             last == ids[Len(ids)]
             f == IF idType = "ensembl" THEN TrimVersion(last) ELSE last
         IN IF f \in SeqToSet(rest) THEN rest ELSE Append(rest, f)

\* remapMatrixToSymbols: `for (const oldId in matrix)` over keys
RECURSIVE RemapMatrixToSymbols(_, _, _, _)
RemapMatrixToSymbols(keys, matrix, conversionMap, newMatrix) ==
    IF keys = <<>> THEN newMatrix
    ELSE LET oldId == Head(keys)
             rest == Tail(keys)
         IN IF oldId \notin DOMAIN conversionMap
            THEN RemapMatrixToSymbols(rest, matrix, conversionMap, newMatrix)
            ELSE LET newSymbol == conversionMap[oldId] IN
                 IF newSymbol \in DOMAIN newMatrix
                 THEN RemapMatrixToSymbols(rest, matrix, conversionMap,
                        [newMatrix EXCEPT ![newSymbol] =
                            [c \in DOMAIN newMatrix[newSymbol] \cup DOMAIN matrix[oldId] |->
                                IF c \in DOMAIN matrix[oldId]
                                THEN CountOr0(newMatrix[newSymbol], c) + matrix[oldId][c]
                                ELSE newMatrix[newSymbol][c]]])
                 ELSE RemapMatrixToSymbols(rest, matrix, conversionMap,
                        [s \in DOMAIN newMatrix \cup {newSymbol} |->
                            IF s = newSymbol THEN matrix[oldId] ELSE newMatrix[s]])

\* the lines of matrix file 2 and what parseCountMatrix makes of them
File2Lines == <<[id |-> "ENSG01.1", cells |-> [c \in Columns |-> 1]],
                [id |-> "ENSG02", cells |-> [c \in Columns |-> 2]]>>
File2Parsed == ParseCountMatrix(File2Lines)
\* the symbol the translation service knows for an identifier of file 2
SymbolOf(id) == IF id = "ENSG01" THEN "g1" ELSE "g2"
\* what convertIdsToSymbols can return for Object.keys(matrix): the symbol of
\* some of the ids, nothing for the others
ConversionMaps == {[id \in D |-> SymbolOf(id)] : D \in SUBSET DOMAIN File2Parsed.matrix}
\* remapMatrixToSymbols(matrix, conversionMap) of file 2
File2Remapped(conversionMap) ==
    RemapMatrixToSymbols(FirstSeen([i \in 1..Len(File2Lines) |-> File2Lines[i].id],
                                   File2Parsed.identifierType),
                         File2Parsed.matrix, conversionMap, <<>>)

\* setDegResults(null); setCurrentAnalysis(null); setCurrentComparison(null);
\* setGseaResults({}) at the head of handleCountMatrixUpload
MatrixUploadKeepsResults ==
    /\ UNCHANGED degResults
    /\ currentAnalysis' = NoAnalysis
    /\ currentComparison' = NoName
    /\ gseaResults' = {}

MatrixUploadResets ==
    /\ degResults' = <<>>
    /\ currentAnalysis' = NoAnalysis
    /\ currentComparison' = NoName
    /\ gseaResults' = {}

\* the same four resets at the head of handleMetadataUpload
MetadataUploadResets ==
    /\ degResults' = <<>>
    /\ currentAnalysis' = NoAnalysis
    /\ currentComparison' = NoName
    /\ gseaResults' = {}

\* handleCountMatrixUpload up to `await file.text()`
HandleCountMatrixUpload(f) ==
    /\ dataFileName = 0
    /\ HasRoom(tasks)
    /\ isLoading' = TRUE
    /\ error' = NoError
    /\ countMatrix' = 0
    /\ dataFileName' = f
    /\ MatrixUploadResets
    /\ UNCHANGED <<sampleMetadata, metadataFileName, isRReady, pValueThreshold>>
    /\ Render(tasks \cup {[BlankTask EXCEPT !.id = NewId(tasks), !.kind = "upload",
                                           !.phase = "read", !.file = f]},
              packageStatus)
    /\ lastOp' = Op("upload_matrix", FALSE, degResults # <<>> \/ gseaResults # {}, <<>>)
    /\ LoadOp
    /\ gseaDone' = {}

UploadFailed(t) ==
    /\ error' = "Upload failed"
    /\ dataFileName' = 0
    /\ isLoading' = FALSE
    /\ UNCHANGED <<countMatrix, sampleMetadata, metadataFileName, isRReady, degResults,
                   gseaResults, currentAnalysis, currentComparison, pValueThreshold>>
    /\ Render(tasks \ {t}, packageStatus)

UploadDone(t) ==
    /\ countMatrix' = t.file
    /\ isLoading' = FALSE
    /\ UNCHANGED <<sampleMetadata, error, dataFileName, metadataFileName, isRReady,
                   degResults, gseaResults, currentAnalysis, currentComparison,
                   pValueThreshold>>
    /\ Render(tasks \ {t}, packageStatus)

\* file.text() resolves: parseCountMatrix, then either done, failed, or
\* `await convertIdsToSymbols`
UploadRead(t) ==
    /\ t \in tasks /\ t.kind = "upload" /\ t.phase = "read"
    /\ IF MatrixGenes(t.file) = {}
       THEN UploadFailed(t)
       ELSE IF IdType(t.file) \notin {"symbol", "unknown"}
       THEN /\ UNCHANGED appVars
            /\ Render(Replace(tasks, t, [t EXCEPT !.phase = "convert"]), packageStatus)
       ELSE UploadDone(t)
    /\ lastOp' = Other
    /\ UNCHANGED <<ops, gseaDone, fnCall>>

\* convertIdsToSymbols resolves with conversionMap; the matrix is remapped
\* and `Object.keys(matrix).length === 0` throws
UploadConvert(t, conversionMap) ==
    /\ t \in tasks /\ t.kind = "upload" /\ t.phase = "convert"
    /\ IF DOMAIN File2Remapped(conversionMap) = {} THEN UploadFailed(t) ELSE UploadDone(t)
    /\ lastOp' = Op("upload_converted", FALSE, FALSE,
                    <<t.file, conversionMap, DOMAIN File2Remapped(conversionMap)>>)
    /\ UNCHANGED <<ops, gseaDone, fnCall>>

ClearData ==
    /\ dataFileName # 0
    /\ countMatrix' = 0
    /\ currentAnalysis' = NoAnalysis
    /\ degResults' = <<>>
    /\ error' = NoError
    /\ dataFileName' = 0
    /\ currentComparison' = NoName
    /\ gseaResults' = {}
    /\ UNCHANGED <<sampleMetadata, isLoading, metadataFileName, isRReady, pValueThreshold>>
    /\ Render(tasks, packageStatus)
    /\ lastOp' = Other
    /\ LoadOp
    /\ gseaDone' = {}

\* handleMetadataUpload up to reader.readAs...
HandleMetadataUpload(g) ==
    /\ metadataFileName = 0
    /\ HasRoom(tasks)
    /\ isLoading' = TRUE
    /\ error' = NoError
    /\ sampleMetadata' = 0
    /\ metadataFileName' = g
    /\ MetadataUploadResets
    /\ UNCHANGED <<countMatrix, dataFileName, isRReady, pValueThreshold>>
    /\ Render(tasks \cup {[BlankTask EXCEPT !.id = NewId(tasks), !.kind = "meta",
                                           !.phase = "read", !.file = g]},
              packageStatus)
    /\ lastOp' = Op("upload_meta", FALSE, degResults # <<>> \/ gseaResults # {}, <<>>)
    /\ LoadOp
    /\ gseaDone' = {}

\* reader.onload (readOk) or reader.onerror
MetadataRead(t, readOk) ==
    /\ t \in tasks /\ t.kind = "meta"
    /\ IF readOk /\ Conditions(t.file) # <<>>
       THEN /\ sampleMetadata' = t.file
            /\ UNCHANGED <<error, metadataFileName>>
       ELSE /\ error' = "Metadata failed"
            /\ metadataFileName' = 0
            /\ UNCHANGED sampleMetadata
    /\ isLoading' = FALSE
    /\ UNCHANGED <<countMatrix, dataFileName, isRReady, degResults, gseaResults,
                   currentAnalysis, currentComparison, pValueThreshold>>
    /\ Render(tasks \ {t}, packageStatus)
    /\ lastOp' = Other
    /\ UNCHANGED <<ops, gseaDone, fnCall>>

ClearMetadataKeepsComparison ==
    /\ metadataFileName # 0
    /\ sampleMetadata' = 0
    /\ currentAnalysis' = NoAnalysis
    /\ degResults' = <<>>
    /\ metadataFileName' = 0
    /\ gseaResults' = {}
    /\ UNCHANGED <<countMatrix, isLoading, error, dataFileName, isRReady, pValueThreshold,
                   currentComparison>>
    /\ Render(tasks, packageStatus)
    /\ lastOp' = Other
    /\ LoadOp
    /\ gseaDone' = {}

ClearMetadata ==
    /\ metadataFileName # 0
    /\ sampleMetadata' = 0
    /\ currentAnalysis' = NoAnalysis
    /\ degResults' = <<>>
    /\ metadataFileName' = 0
    /\ currentComparison' = NoName
    /\ gseaResults' = {}
    /\ UNCHANGED <<countMatrix, isLoading, error, dataFileName, isRReady, pValueThreshold>>
    /\ Render(tasks, packageStatus)
    /\ lastOp' = Other
    /\ LoadOp
    /\ gseaDone' = {}

\* ------------------------------------------------------ primary analysis
\* Sidebar.handleRunPrimaryAnalysis: the comparisons built from the selects
SidebarComparisonsUnfiltered(mode, A, B, conds) ==
    IF mode = "pairwise"
    THEN IF A # "" /\ B # "" /\ A # B THEN <<[A |-> A, B |-> B]>> ELSE <<>>
    ELSE IF A # ""
         THEN [i \in 1..Len(conds) |-> [A |-> A, B |-> conds[i]]]
         ELSE <<>>

SidebarComparisons(mode, A, B, conds) ==
    IF mode = "pairwise"
    THEN IF A # "" /\ B # "" /\ A # B THEN <<[A |-> A, B |-> B]>> ELSE <<>>
    ELSE IF A # ""
         THEN LET rest == SelectSeq(conds, LAMBDA c : c # A)
              IN [i \in 1..Len(rest) |-> [A |-> A, B |-> rest[i]]]
         ELSE <<>>

\* Sidebar.isPrimaryAnalysisDisabled, with the props App passes
\* (isDataLoaded = !!countMatrix && !!sampleMetadata, isLoading = isLoading || !isRReady)
IsPrimaryAnalysisDisabled(mode, A, B) ==
    \/ ~(countMatrix # 0 /\ sampleMetadata # 0)
    \/ (isLoading \/ ~isRReady)
    \/ A = ""
    \/ (mode = "pairwise" /\ (B = "" \/ A = B))

IsSubsequentAnalysisDisabled == ~(degResults # <<>>) \/ (isLoading \/ ~isRReady)

\* a step of runDeseq2 / runGsea after ensurePackage: the run goes on, or
\* runGsea throws on `[...degResults]` of an undefined list
Settle(r) ==
    IF r.t.kind = "gsea" /\ r.t.phase = "eval" /\ r.t.data = NoVal
    THEN [r EXCEPT !.t.phase = "throw"]
    ELSE r

\* the catch/finally of handlePrimaryAnalysis and handleGseaAnalysis
TaskFailedDropsCache(t, ps) ==
    /\ error' = IF t.kind = "primary" THEN "Analysis failed" ELSE "GSEA analysis failed"
    /\ isLoading' = FALSE
    /\ gseaResults' = {}
    /\ UNCHANGED <<countMatrix, sampleMetadata, dataFileName, metadataFileName, isRReady,
                   degResults, currentAnalysis, currentComparison, pValueThreshold>>
    /\ Render(tasks \ {t}, ps)
    /\ lastOp' = IF t.kind = "primary" THEN Op("primary_failed", FALSE, FALSE, t.acc)
                 ELSE Op("gsea_failed", FALSE, FALSE, <<>>)

TaskFailed(t, ps) ==
    /\ error' = IF t.kind = "primary" THEN "Analysis failed" ELSE "GSEA analysis failed"
    /\ isLoading' = FALSE
    /\ UNCHANGED <<countMatrix, sampleMetadata, dataFileName, metadataFileName, isRReady,
                   degResults, gseaResults, currentAnalysis, currentComparison,
                   pValueThreshold>>
    /\ Render(tasks \ {t}, ps)
    /\ lastOp' = IF t.kind = "primary" THEN Op("primary_failed", FALSE, FALSE, t.acc)
                 ELSE Op("gsea_failed", FALSE, FALSE, <<>>)

TaskGoesOn(t, r) ==
    IF r.t.phase = "throw"
    THEN TaskFailed(t, r.ps)
    ELSE /\ UNCHANGED appVars
         /\ Render(Replace(tasks, t, r.t), r.ps)
         /\ lastOp' = Other

\* `for (const comp of comparisonsToRun) { ... await rService.runDeseq2(...) }`:
\* the runDeseq2 calls made when the loop reaches comparison k
LoopStartAll(comps, k) == IF k = 1 THEN 1..Len(comps) ELSE {}

LoopStart(comps, k) == {k}

\* handlePrimaryAnalysis up to the first suspension of the first runDeseq2
HandlePrimaryAnalysis(comps) ==
    IF countMatrix = 0 \/ sampleMetadata = 0
    THEN /\ error' = "Count matrix and metadata are required for analysis."
         /\ UNCHANGED <<countMatrix, sampleMetadata, isLoading, dataFileName, metadataFileName,
                        isRReady, degResults, gseaResults, currentAnalysis,
                        currentComparison, pValueThreshold, gseaDone>>
         /\ Render(tasks, packageStatus)
    ELSE IF ~isRReady
    THEN /\ error' = "The R environment is still being set up."
         /\ UNCHANGED <<countMatrix, sampleMetadata, isLoading, dataFileName, metadataFileName,
                        isRReady, degResults, gseaResults, currentAnalysis,
                        currentComparison, pValueThreshold, gseaDone>>
         /\ Render(tasks, packageStatus)
    ELSE /\ degResults' = <<>>
         /\ currentAnalysis' = NoAnalysis
         /\ currentComparison' = NoName
         /\ gseaResults' = {}
         /\ gseaDone' = {}
         /\ UNCHANGED <<countMatrix, sampleMetadata, dataFileName, metadataFileName, isRReady,
                        pValueThreshold>>
         /\ IF ~Initialized(packageStatus)
            THEN /\ error' = "Analysis failed: R service not initialized."
                 /\ isLoading' = FALSE
                 /\ Render(tasks, packageStatus)
            ELSE /\ HasRoom(tasks)
                 /\ error' = NoError
                 /\ isLoading' = TRUE
                 /\ LET t == [BlankTask EXCEPT !.id = NewId(tasks), !.kind = "primary",
                                               !.comps = comps, !.k = 1,
                                               !.running = LoopStart(comps, 1),
                                               !.m = countMatrix,
                                               !.s = sampleMetadata, !.thr = pValueThreshold]
                        r == Enter(t, packageStatus, "DESeq2")
                    IN Render(tasks \cup {r.t}, r.ps)

\* the user presses "Run DESeq2 Analysis" with the selects at (mode, A, B)
RunPrimaryAnalysis(mode, A, B) ==
    /\ A \in SeqToSet(Conditions(sampleMetadata))
    /\ B \in SeqToSet(Conditions(sampleMetadata))
    /\ mode = "one_vs_rest" => Len(Conditions(sampleMetadata)) > 2
    /\ ~IsPrimaryAnalysisDisabled(mode, A, B)
    /\ SidebarComparisons(mode, A, B, Conditions(sampleMetadata)) # <<>>
    /\ HandlePrimaryAnalysis(SidebarComparisons(mode, A, B, Conditions(sampleMetadata)))
    /\ lastOp' = Op("primary_request", FALSE, FALSE, <<mode, A>>)
    /\ UserOp

\* a caller polling in ensurePackage wakes up and the package is no longer
\* being installed
EnsureWake(t) ==
    /\ t \in tasks /\ t.kind \in {"primary", "gsea"} /\ t.phase = "pkgwait"
    /\ packageStatus[t.pkg] # "installing"
    /\ TaskGoesOn(t, Settle(Enter(t, packageStatus, t.pkg)))
    /\ UNCHANGED <<ops, gseaDone, fnCall>>

\* the install command of ensurePackage returns (or throws)
EnsureInstalled(t, ok) ==
    /\ t \in tasks /\ t.kind \in {"primary", "gsea"} /\ t.phase = "install"
    /\ IF ok
       THEN LET ps == [packageStatus EXCEPT ![t.pkg] = "installed"] IN
            TaskGoesOn(t, Settle(Enter(t, ps, t.pkg)))
       ELSE TaskFailed(t, [packageStatus EXCEPT ![t.pkg] = "not_installed"])
    /\ UNCHANGED <<ops, gseaDone, fnCall>>

\* evalR of the DESeq2 script returns (or throws): store the result and run
\* the next comparison, or publish allResults and ask for the summary
Deseq2Returns(t, ok) ==
    /\ t \in tasks /\ t.kind = "primary" /\ t.phase = "eval"
    /\ IF ~ok
       THEN TaskFailed(t, packageStatus)
       ELSE LET comp == t.comps[t.k]
                acc == Store(t.acc, ComparisonName(comp), DeVal(t.m, t.s, comp.A, comp.B))
            IN
            IF t.k < Len(t.comps)
            THEN TaskGoesOn(t, Enter([t EXCEPT !.k = t.k + 1, !.acc = acc,
                                                       !.running = (t.running \ {t.k})
                                                                     \cup LoopStart(t.comps, t.k + 1)],
                                            packageStatus, "DESeq2"))
            ELSE /\ degResults' = acc
                 /\ currentComparison' = Keys(acc)[1]
                 /\ UNCHANGED <<countMatrix, sampleMetadata, isLoading, error, dataFileName,
                                metadataFileName, isRReady, gseaResults, currentAnalysis,
                                pValueThreshold>>
                 /\ Render(Replace(tasks, t, [t EXCEPT !.phase = "gemini", !.acc = acc,
                                                      !.running = t.running \ {t.k},
                                                      !.data = Lookup(acc, Keys(acc)[1])]),
                           packageStatus)
                 /\ lastOp' = Op("primary_done", FALSE, FALSE, acc)
    /\ UNCHANGED <<ops, gseaDone, fnCall>>

\* getAnalysisFromGemini('summary', allResults[firstComparison], pValueThreshold) settles
SummaryReturns(t, ok) ==
    /\ t \in tasks /\ t.kind \in {"primary", "summary"} /\ t.phase = "gemini"
    /\ IF ok
       THEN /\ currentAnalysis' = [type |-> "summary",
                                   sig |-> SignificantGenes(t.data, t.thr),
                                   gsea |-> NoGsea]
            /\ UNCHANGED error
       ELSE /\ error' = "Analysis failed"
            /\ UNCHANGED currentAnalysis
    /\ isLoading' = FALSE
    /\ UNCHANGED <<countMatrix, sampleMetadata, dataFileName, metadataFileName, isRReady,
                   degResults, gseaResults, currentComparison, pValueThreshold>>
    /\ Render(tasks \ {t}, packageStatus)
    /\ lastOp' = Other
    /\ UNCHANGED <<ops, gseaDone, fnCall>>

\* ---------------------------------------------------- subsequent analysis
PlotTypes == {"volcano", "ma_plot", "heatmap"}

\* the user presses one of the "Overview & Plots" buttons
HandleSubsequentAnalysis(type) ==
    /\ ~IsSubsequentAnalysisDisabled
    /\ IF degResults = <<>> \/ currentComparison = NoName
       THEN /\ error' = "Please run the primary Differential Expression Analysis first."
            /\ UNCHANGED <<countMatrix, sampleMetadata, isLoading, dataFileName,
                           metadataFileName, isRReady, degResults, gseaResults,
                           currentAnalysis, currentComparison, pValueThreshold>>
            /\ Render(tasks, packageStatus)
       ELSE IF type \in PlotTypes
       THEN \* currentData[0] of an undefined list throws out of the handler
            /\ ~(type = "ma_plot" /\ Lookup(degResults, currentComparison) = NoVal)
            /\ currentAnalysis' = [type |-> type, sig |-> currentAnalysis.sig, gsea |-> NoGsea]
            /\ UNCHANGED <<countMatrix, sampleMetadata, isLoading, error, dataFileName,
                           metadataFileName, isRReady, degResults, gseaResults,
                           currentComparison, pValueThreshold>>
            /\ Render(tasks, packageStatus)
       ELSE /\ UNCHANGED <<countMatrix, sampleMetadata, dataFileName, metadataFileName,
                           isRReady, degResults, gseaResults, currentAnalysis,
                           currentComparison, pValueThreshold>>
            /\ IF Lookup(degResults, currentComparison) = NoVal
               THEN /\ error' = "Analysis failed"
                    /\ isLoading' = FALSE
                    /\ Render(tasks, packageStatus)
               ELSE /\ HasRoom(tasks)
                    /\ error' = NoError
                    /\ isLoading' = TRUE
                    /\ Render(tasks \cup {[BlankTask EXCEPT !.id = NewId(tasks),
                                              !.kind = "summary", !.phase = "gemini",
                                              !.data = Lookup(degResults, currentComparison),
                                              !.thr = pValueThreshold]},
                              packageStatus)
    /\ lastOp' = Other
    /\ UserOp
    /\ UNCHANGED gseaDone

\* ------------------------------------------------------------------ GSEA
\* gseaResults[currentComparison] && gseaResults[currentComparison][db]:
\* a stored list is truthy whether or not it is empty
CacheHitNonEmpty(cache, cmp, db) ==
    \E e \in cache : e.cmp = cmp /\ e.db = db /\ ~e.res.empty

CacheHit(cache, cmp, db) ==
    \E e \in cache : e.cmp = cmp /\ e.db = db

Cached(cache, cmp, db) == CHOOSE e \in cache : e.cmp = cmp /\ e.db = db

\* prev => ({...prev, [cmp]: {...prev[cmp], [db]: results}})
Put(cache, cmp, db, res) ==
    {e \in cache : ~(e.cmp = cmp /\ e.db = db)} \cup {[cmp |-> cmp, db |-> db, res |-> res]}

GseaVal(data, db, empty) == [src |-> data, db |-> db, empty |-> empty]

\* the user presses one of the GSEA buttons
HandleGseaAnalysis(db) ==
    /\ ~IsSubsequentAnalysisDisabled
    /\ IF degResults = <<>> \/ currentComparison = NoName
       THEN /\ error' = "Please run the primary Differential Expression Analysis first."
            /\ UNCHANGED <<countMatrix, sampleMetadata, isLoading, dataFileName,
                           metadataFileName, isRReady, degResults, gseaResults,
                           currentAnalysis, currentComparison, pValueThreshold>>
            /\ Render(tasks, packageStatus)
            /\ lastOp' = Other
       ELSE IF CacheHit(gseaResults, currentComparison, db)
       THEN /\ currentAnalysis' = [type |-> "gsea", sig |-> NoSig,
                                   gsea |-> [db |-> db,
                                             results |-> Cached(gseaResults, currentComparison, db).res]]
            /\ UNCHANGED <<countMatrix, sampleMetadata, isLoading, error, dataFileName,
                           metadataFileName, isRReady, degResults, gseaResults,
                           currentComparison, pValueThreshold>>
            /\ Render(tasks, packageStatus)
            /\ lastOp' = Op("gsea", FALSE, Completed(currentComparison, db),
                            <<currentComparison, db>>)
       ELSE /\ UNCHANGED <<countMatrix, sampleMetadata, dataFileName, metadataFileName,
                           isRReady, degResults, gseaResults, currentAnalysis,
                           currentComparison, pValueThreshold>>
            /\ lastOp' = Op("gsea", TRUE, Completed(currentComparison, db),
                            <<currentComparison, db>>)
            /\ IF ~Initialized(packageStatus)
               THEN /\ error' = "GSEA analysis failed"
                    /\ isLoading' = FALSE
                    /\ Render(tasks, packageStatus)
               ELSE LET t == [BlankTask EXCEPT !.id = NewId(tasks), !.kind = "gsea",
                                               !.cmp = currentComparison, !.db = db,
                                               !.data = Lookup(degResults, currentComparison)]
                        r == Settle(Enter(t, packageStatus, "clusterProfiler"))
                    IN
                    IF r.t.phase = "throw"
                    THEN /\ error' = "GSEA analysis failed"
                         /\ isLoading' = FALSE
                         /\ Render(tasks, r.ps)
                    ELSE /\ HasRoom(tasks)
                         /\ error' = NoError
                         /\ isLoading' = TRUE
                         /\ Render(tasks \cup {r.t}, r.ps)
    /\ UserOp
    /\ UNCHANGED gseaDone

\* evalR of the GSEA script returns a list (empty or not) or throws
GseaReturns(t, ok, empty) ==
    /\ t \in tasks /\ t.kind = "gsea" /\ t.phase = "eval"
    /\ IF ~ok
       THEN /\ TaskFailed(t, packageStatus)
            /\ UNCHANGED gseaDone
       ELSE LET res == GseaVal(t.data, t.db, empty) IN
            /\ gseaResults' = Put(gseaResults, t.cmp, t.db, res)
            /\ currentAnalysis' = [type |-> "gsea", sig |-> NoSig,
                                   gsea |-> [db |-> t.db, results |-> res]]
            /\ isLoading' = FALSE
            /\ UNCHANGED <<countMatrix, sampleMetadata, error, dataFileName, metadataFileName,
                           isRReady, degResults, currentComparison, pValueThreshold>>
            /\ Render(tasks \ {t}, packageStatus)
            /\ gseaDone' = Put(gseaDone, t.cmp, t.db, res)
            /\ lastOp' = Op("gsea_done", FALSE, FALSE, <<t.cmp, t.db>>)
    /\ UNCHANGED <<ops, fnCall>>

\* ------------------------------------------------ selects and the slider
\* ResultsDisplay renders the comparison select
ComparisonSelectShown ==
    /\ ~(isLoading \/ ~isRReady)
    /\ error = NoError
    /\ currentAnalysis # NoAnalysis
    /\ CurrentDegData(currentComparison, degResults) # NoVal
    /\ Len(degResults) > 1

\* onComparisonChange = setCurrentComparison
ComparisonChange(c) ==
    /\ ComparisonSelectShown
    /\ c \in SeqToSet(Keys(degResults))
    /\ c # currentComparison
    /\ currentComparison' = c
    /\ UNCHANGED <<countMatrix, sampleMetadata, isLoading, error, dataFileName,
                   metadataFileName, isRReady, degResults, gseaResults, currentAnalysis,
                   pValueThreshold>>
    /\ Render(tasks, packageStatus)
    /\ lastOp' = Other
    /\ UserOp
    /\ UNCHANGED gseaDone

\* onPValueThresholdChange = setPValueThreshold
PValueThresholdChangeClears(thr) ==
    /\ thr \in Thresholds
    /\ thr # pValueThreshold
    /\ pValueThreshold' = thr
    /\ degResults' = <<>>
    /\ gseaResults' = {}
    /\ currentComparison' = NoName
    /\ currentAnalysis' = NoAnalysis
    /\ UNCHANGED <<countMatrix, sampleMetadata, isLoading, error, dataFileName,
                   metadataFileName, isRReady>>
    /\ Render(tasks, packageStatus)
    /\ lastOp' = Op("threshold", FALSE, degResults # <<>>, <<>>)
    /\ UserOp
    /\ gseaDone' = {}

PValueThresholdChange(thr) ==
    /\ thr \in Thresholds
    /\ thr # pValueThreshold
    /\ pValueThreshold' = thr
    /\ UNCHANGED <<countMatrix, sampleMetadata, isLoading, error, dataFileName,
                   metadataFileName, isRReady, degResults, gseaResults, currentAnalysis,
                   currentComparison>>
    /\ Render(tasks, packageStatus)
    /\ lastOp' = Op("threshold", FALSE, degResults # <<>>, <<>>)
    /\ UserOp
    /\ UNCHANGED gseaDone

\* ---------------------------------------------------------------- Heatmap
\* the Heatmap renders its method select
MethodSelectShown ==
    /\ hmMounted
    /\ InitialGenes(currentAnalysis) # <<>>
    /\ ~hmLoading
    /\ hmError = NoError

\* setClusteringMethod, and the effect that follows it
ClusteringMethodChange(method) ==
    /\ MethodSelectShown
    /\ method \in Methods
    /\ method # hmMethod
    /\ LET genes == InitialGenes(currentAnalysis)
           call == ClusterCall(tasks, packageStatus, countMatrix, genes, method)
       IN
       /\ call.res # "full"
       /\ tasks' = call.ts
       /\ packageStatus' = call.ps
       /\ hmMethod' = method
       /\ hmOrdered' = IF call.res \in {"throw", "input"}
                       THEN [genes |-> genes, by |-> "input"] ELSE hmOrdered
       /\ hmLoading' = (call.res = "task")
       /\ hmError' = IF call.res = "throw" THEN "Clustering failed" ELSE NoError
    /\ UNCHANGED <<hmMounted, gseaDone>>
    /\ UNCHANGED appVars
    /\ lastOp' = Other
    /\ UserOp

\* clusterGenes' catch and finally; setState of an unmounted Heatmap is dropped
ClusterFailedKeepsOrder(t, ps) ==
    /\ tasks' = tasks \ {t}
    /\ packageStatus' = ps
    /\ IF t.live
       THEN /\ hmError' = "Clustering failed"
            /\ hmLoading' = FALSE
            /\ UNCHANGED <<hmMounted, hmMethod, hmOrdered>>
       ELSE UNCHANGED hmVars
    /\ lastOp' = Op("cluster_failed", FALSE, t.live, t.genes)

ClusterFailed(t, ps) ==
    /\ tasks' = tasks \ {t}
    /\ packageStatus' = ps
    /\ IF t.live
       THEN /\ hmError' = "Clustering failed"
            /\ hmOrdered' = [genes |-> t.genes, by |-> "input"]
            /\ hmLoading' = FALSE
            /\ UNCHANGED <<hmMounted, hmMethod>>
       ELSE UNCHANGED hmVars
    /\ lastOp' = Op("cluster_failed", FALSE, t.live, t.genes)

\* getClusteredOrder resolved with `order`; clusterGenes maps it through geneMap
ClusterResolved(t, ps, order, by) ==
    /\ tasks' = tasks \ {t}
    /\ packageStatus' = ps
    /\ IF t.live
       THEN /\ hmOrdered' = [genes |-> SelectSeq(order, LAMBDA g : g \in SeqToSet(t.genes)),
                             by |-> by]
            /\ hmLoading' = FALSE
            /\ UNCHANGED <<hmMounted, hmMethod, hmError>>
       ELSE UNCHANGED hmVars
    /\ lastOp' = Other

\* getClusteredOrder after ensurePackage('vsn') returned
ClusterGoesOn(t, r) ==
    IF r.t.phase = "eval" /\ Len(Relevant(t.m, t.genes)) < ClusterMin
    THEN ClusterResolved(t, r.ps, t.genes, "input")
    ELSE /\ tasks' = Replace(tasks, t, r.t)
         /\ packageStatus' = r.ps
         /\ UNCHANGED hmVars
         /\ lastOp' = Other

ClusterWake(t) ==
    /\ t \in tasks /\ t.kind = "cluster" /\ t.phase = "pkgwait"
    /\ packageStatus[t.pkg] # "installing"
    /\ ClusterGoesOn(t, EnterLast(t, packageStatus, t.pkg))
    /\ UNCHANGED appVars
    /\ UNCHANGED <<ops, gseaDone, fnCall>>

ClusterInstalled(t, ok) ==
    /\ t \in tasks /\ t.kind = "cluster" /\ t.phase = "install"
    /\ IF ok
       THEN ClusterGoesOn(t, EnterLast(t, [packageStatus EXCEPT ![t.pkg] = "installed"], t.pkg))
       ELSE ClusterFailed(t, [packageStatus EXCEPT ![t.pkg] = "not_installed"])
    /\ UNCHANGED appVars
    /\ UNCHANGED <<ops, gseaDone, fnCall>>

\* evalR of the clustering script returns (or throws)
ClusterReturns(t, ok) ==
    /\ t \in tasks /\ t.kind = "cluster" /\ t.phase = "eval"
    /\ IF ok
       THEN ClusterResolved(t, packageStatus,
                            ClusterOrder(Relevant(t.m, t.genes), t.method), t.method)
       ELSE ClusterFailed(t, packageStatus)
    /\ UNCHANGED appVars
    /\ UNCHANGED <<ops, gseaDone, fnCall>>

\* ------------------------------------------------------------------- Next
\* what the user leaves in the Sidebar selects before pressing Run
Modes == {"pairwise", "one_vs_rest"}
Baselines == {"A"}
Others == {"B", "C"}
\* the plot buttons the user presses
Buttons == {"summary", "volcano", "heatmap"}

Next ==
    \/ InitializeR
    \/ \E t \in tasks, ok \in BOOLEAN : InitBringup(t, ok)
    \/ \E t \in tasks, ok \in BOOLEAN : InitInstall(t, ok)
    \/ \E f \in MatrixFiles : HandleCountMatrixUpload(f)
    \/ \E t \in tasks : UploadRead(t)
    \/ \E t \in tasks, conversionMap \in ConversionMaps : UploadConvert(t, conversionMap)
    \/ ClearData
    \/ \E g \in MetaFiles : HandleMetadataUpload(g)
    \/ \E t \in tasks, readOk \in BOOLEAN : MetadataRead(t, readOk)
    \/ ClearMetadata
    \/ \E mode \in Modes, A \in Baselines, B \in Others : RunPrimaryAnalysis(mode, A, B)
    \/ \E t \in tasks : EnsureWake(t)
    \/ \E t \in tasks, ok \in BOOLEAN : EnsureInstalled(t, ok)
    \/ \E t \in tasks, ok \in BOOLEAN : Deseq2Returns(t, ok)
    \/ \E t \in tasks, ok \in BOOLEAN : SummaryReturns(t, ok)
    \/ \E type \in Buttons : HandleSubsequentAnalysis(type)
    \/ \E db \in Databases : HandleGseaAnalysis(db)
    \/ \E t \in tasks, ok \in BOOLEAN, empty \in BOOLEAN : GseaReturns(t, ok, empty)
    \/ \E c \in {ComparisonName([A |-> a, B |-> b]) : a \in Baselines, b \in Others} : ComparisonChange(c)
    \/ \E thr \in Thresholds : PValueThresholdChange(thr)
    \/ \E method \in Methods : ClusteringMethodChange(method)
    \/ \E t \in tasks : ClusterWake(t)
    \/ \E t \in tasks, ok \in BOOLEAN : ClusterInstalled(t, ok)
    \/ \E t \in tasks, ok \in BOOLEAN : ClusterReturns(t, ok)

Spec == Init /\ [][Next]_vars

\* ================================================================ claims
PrimaryTasks(ts) == {t \in ts : t.kind = "primary"}
Installs(ts, pkg) == {t \in ts : t.phase = "install" /\ t.pkg = pkg}
\* engine evaluations of analysis scripts in flight
EngineEvals == {t \in tasks : t.phase = "eval"}

\* C1: a GSEA request for (c, d) made after a request for (c, d) completed
\* successfully and before the cache was cleared does not call runGsea again
\* and sets the stored result as the current analysis, also when the stored
\* list is empty.
C1_CacheServesCompleted ==
    (lastOp.op = "gsea" /\ lastOp.wasDone) =>
        /\ ~lastOp.called
        /\ currentAnalysis =
             [type |-> "gsea", sig |-> NoSig,
              gsea |-> [db |-> lastOp.acc[2],
                        results |-> (CHOOSE e \in gseaDone :
                                        e.cmp = lastOp.acc[1] /\ e.db = lastOp.acc[2]).res]]

C1_Witness ==
    /\ lastOp.op = "gsea"
    /\ lastOp.wasDone
    /\ currentAnalysis.type = "gsea"
    /\ currentAnalysis.gsea.results.empty

\* C2: when a DE run of a batch fails after earlier comparisons of the batch
\* succeeded, the results of those comparisons are in degResults once the
\* batch has ended.
C2_SucceededComparisonsKept ==
    (lastOp.op = "primary_failed" /\ lastOp.acc # <<>>) =>
        \A i \in 1..Len(lastOp.acc) :
            Lookup(degResults, lastOp.acc[i].name) = lastOp.acc[i].val

\* C3: at most one handlePrimaryAnalysis batch is in flight at any time.
C3_OnePrimaryInFlight == Cardinality(PrimaryTasks(tasks)) <= 1

\* C4: for every package at most one install command is in flight, and an
\* install command is never issued for a package whose status is 'installed'.
C4_SingleInstall ==
    [][\A pkg \in Packages :
          /\ Cardinality(Installs(tasks', pkg)) <= 1
          /\ (Installs(tasks', pkg) \ Installs(tasks, pkg) # {})
               => packageStatus[pkg] # "installed"]_vars

C4_Witness ==
    \E t1 \in tasks, t2 \in tasks :
        /\ t1.phase = "install"
        /\ t2.phase = "pkgwait"
        /\ t1.pkg = t2.pkg

\* C5: the backend is marked ready (isRReady) only when BiocManager is
\* 'installed': a late init call waits for the initialization in flight.
C5_ReadyImpliesInstalled == isRReady => packageStatus["BiocManager"] = "installed"

\* C6: a primary analysis requested while the backend has not finished
\* initializing is rejected: an error is set, no DE run is started and
\* degResults, the GSEA cache, currentComparison and currentAnalysis keep
\* their values.
C6_NotReadyRejected ==
    [][(lastOp'.op = "primary_request"
          /\ (~isRReady \/ packageStatus["BiocManager"] # "installed")) =>
        /\ error' # NoError
        /\ PrimaryTasks(tasks') \subseteq PrimaryTasks(tasks)
        /\ degResults' = degResults
        /\ gseaResults' = gseaResults
        /\ currentComparison' = currentComparison
        /\ currentAnalysis' = currentAnalysis]_vars

C6_Witness ==
    /\ lastOp.op = "primary_request"
    /\ packageStatus["BiocManager"] # "installed"
    /\ error = "Analysis failed: R service not initialized."

\* C7: within one batch the DE runs are sequential and in request order: at
\* most one runDeseq2 call of the batch is in flight, and the call for
\* comparison i is made only when the results of comparisons 1..i-1 are
\* stored.
C7_SequentialRuns ==
    \A t \in PrimaryTasks(tasks) :
        /\ Cardinality(t.running) <= 1
        /\ \A i \in t.running :
              /\ Len(t.acc) = i - 1
              /\ \A j \in 1..(i - 1) : t.acc[j].name = ComparisonName(t.comps[j])

C7_Witness ==
    \E t \in PrimaryTasks(tasks) :
        /\ t.running = {2}
        /\ t.phase = "eval"
        /\ Len(t.acc) = 1

\* C8: at most one engine evaluation (DE run, clustering, enrichment) is in
\* flight at any time.
C8_OneEngineEvaluation == Cardinality(EngineEvals) <= 1

\* C9: right after the synchronous reset of an upload handler degResults is
\* null, the GSEA cache is empty and currentComparison and currentAnalysis
\* are null.
C9_UploadClears ==
    lastOp.op \in {"upload_matrix", "upload_meta"} =>
        /\ degResults = <<>>
        /\ gseaResults = {}
        /\ currentComparison = NoName
        /\ currentAnalysis = NoAnalysis

C9_Witness ==
    /\ lastOp.op = "upload_matrix"
    /\ lastOp.wasDone

\* C10: changing the threshold leaves degResults, the GSEA cache and
\* currentComparison unchanged and starts no DE run.
C10_ThresholdKeepsResults ==
    [][pValueThreshold' # pValueThreshold =>
        /\ degResults' = degResults
        /\ gseaResults' = gseaResults
        /\ currentComparison' = currentComparison
        /\ PrimaryTasks(tasks') = PrimaryTasks(tasks)]_vars

C10_Witness ==
    /\ lastOp.op = "threshold"
    /\ lastOp.wasDone
    /\ degResults # <<>>

\* C11: the GSEA cache is write-once per key: an entry that exists keeps its
\* value in every step, unless the step clears the whole cache.
C11_WriteOnce ==
    [][\A e \in gseaResults : e \in gseaResults' \/ gseaResults' = {}]_vars

\* C12: a step in which an enrichment run fails sets an error and leaves the
\* whole GSEA cache (so no entry is written for the failed key and every
\* other entry stays) and degResults unchanged.
C12_GseaFailureKeepsCache ==
    [][lastOp'.op = "gsea_failed" =>
         /\ error' # NoError
         /\ gseaResults' = gseaResults
         /\ degResults' = degResults]_vars

C12_Witness ==
    /\ lastOp.op = "gsea_failed"
    /\ error = "GSEA analysis failed"
    /\ gseaResults # {}
    /\ degResults # <<>>

\* the primary batch that publishes its results in this step
Publishes(t) ==
    /\ t \in PrimaryTasks(tasks)
    /\ t.phase = "eval"
    /\ \E u \in tasks' : u.id = t.id /\ u.kind = "primary" /\ u.phase = "gemini"

\* C13: a one-vs-rest request with baseline A over the condition set S starts
\* a batch of exactly the comparisons (A, c), c in S \ {A}, named "c_vs_A";
\* when a batch succeeds degResults has exactly the names of its comparisons
\* as keys.
C13_OneVsRestComparisons ==
    [][/\ (lastOp'.op = "primary_request" /\ lastOp'.acc[1] = "one_vs_rest") =>
            LET A == lastOp'.acc[2]
                S == SeqToSet(Conditions(sampleMetadata))
            IN \A t \in PrimaryTasks(tasks') \ PrimaryTasks(tasks) :
                  /\ Len(t.comps) = Cardinality(S) - 1
                  /\ {ComparisonName(t.comps[i]) : i \in 1..Len(t.comps)}
                        = {c \o "_vs_" \o A : c \in S \ {A}}
                  /\ \A i \in 1..Len(t.comps) : t.comps[i].A = A /\ t.comps[i].B # A
       /\ \A t \in tasks : Publishes(t) =>
             /\ Len(degResults') = Len(t.comps)
             /\ \A i \in 1..Len(t.comps) : degResults'[i].name = ComparisonName(t.comps[i])]_vars

C13_Witness ==
    /\ lastOp.op = "primary_done"
    /\ Keys(degResults) = <<"B_vs_A", "C_vs_A">>

\* ======================================================== getSignificantGenes
\* rows of a DE result list: log2FoldChange in tenths, adjusted p-value
\* (GeneData.pvalue) in thousandths
MaxGenes == 3
LfcValues == {-30, -25, -10, 2, 10, 25, 30}
PValues == {1, 50, 900}
\* the list whose i-th row is gene i with the values f[i]
GeneList(f, k) == [i \in 1..k |-> [gene |-> i, lfc |-> f[i][1], p |-> f[i][2]]]

\* const FC_THRESHOLD = 1.0
FC_THRESHOLD == 10

\* g.pvalue < pValueThreshold && g.log2FoldChange > FC_THRESHOLD
IsUpInclusive(g, thr) == g.p < thr /\ g.lfc >= FC_THRESHOLD

IsUp(g, thr) == g.p < thr /\ g.lfc > FC_THRESHOLD

\* g.pvalue < pValueThreshold && g.log2FoldChange < -FC_THRESHOLD
IsDownAnyP(g, thr) == g.lfc < -FC_THRESHOLD

IsDown(g, thr) == g.p < thr /\ g.lfc < -FC_THRESHOLD

\* Array.prototype.sort with a comparator on log2FoldChange (stable):
\* sign = 1 for (a, b) => a - b, sign = -1 for (a, b) => b - a
RECURSIVE InsertByLfc(_, _, _)
InsertByLfc(x, q, sign) ==
    IF q = <<>> THEN <<x>>
    ELSE IF sign * Head(q).lfc <= sign * x.lfc
         THEN <<Head(q)>> \o InsertByLfc(x, Tail(q), sign)
         ELSE <<x>> \o q

RECURSIVE SortByLfc(_, _)
SortByLfc(q, sign) ==
    IF q = <<>> THEN <<>>
    ELSE InsertByLfc(q[Len(q)], SortByLfc(SubSeq(q, 1, Len(q) - 1), sign), sign)

GetSignificantGenes(data, thr) ==
    [up |-> SortByLfc(SelectSeq(data, LAMBDA g : IsUp(g, thr)), -1),
     down |-> SortByLfc(SelectSeq(data, LAMBDA g : IsDown(g, thr)), 1)]

ClassifyInit ==
    /\ SessionInit
    /\ \E k \in 0..MaxGenes, t \in Thresholds :
          \E f \in [1..k -> LfcValues \X PValues] :
             fnCall = [fn |-> "classify", in |-> [data |-> GeneList(f, k), thr |-> t],
                       done |-> FALSE, out |-> <<>>]

Classify ==
    /\ fnCall.fn = "classify"
    /\ ~fnCall.done
    /\ fnCall' = [fnCall EXCEPT !.done = TRUE,
                                !.out = GetSignificantGenes(fnCall.in.data, fnCall.in.thr)]
    /\ UNCHANGED sessionVars

ClassifyNext == Classify

ClassifySpec == ClassifyInit /\ [][ClassifyNext]_vars

Classified == fnCall.fn = "classify" /\ fnCall.done
GenesOf(q) == {q[i].gene : i \in 1..Len(q)}

\* C14: classify returns as up exactly the genes with adjusted p-value below
\* the threshold and log2FoldChange above 1.0, in non-increasing
\* log2FoldChange order, and as down exactly those with adjusted p-value
\* below the threshold and log2FoldChange below -1.0, in non-decreasing
\* order; each gene at most once.
C14_ClassifyExact ==
    Classified =>
        LET data == fnCall.in.data
            thr == fnCall.in.thr
            up == fnCall.out.up
            down == fnCall.out.down
        IN /\ {up[i] : i \in 1..Len(up)}
                = {data[i] : i \in {j \in 1..Len(data) : data[j].p < thr /\ data[j].lfc > 10}}
           /\ {down[i] : i \in 1..Len(down)}
                = {data[i] : i \in {j \in 1..Len(data) : data[j].p < thr /\ data[j].lfc < -10}}
           /\ Cardinality(GenesOf(up)) = Len(up)
           /\ Cardinality(GenesOf(down)) = Len(down)
           /\ \A i \in 1..(Len(up) - 1) : up[i].lfc >= up[i + 1].lfc
           /\ \A i \in 1..(Len(down) - 1) : down[i].lfc <= down[i + 1].lfc

\* the example of the claim: 2.5 / 0.001 is up at 0.05, 0.2 / 0.9 is in
\* neither list; and the order of up is decided by the sort
C14_Witness ==
    /\ Classified
    /\ fnCall.in.thr = 50
    /\ fnCall.in.data = <<[gene |-> 1, lfc |-> 2, p |-> 900],
                          [gene |-> 2, lfc |-> 25, p |-> 1],
                          [gene |-> 3, lfc |-> 30, p |-> 1]>>
    /\ fnCall.out.up = <<[gene |-> 3, lfc |-> 30, p |-> 1], [gene |-> 2, lfc |-> 25, p |-> 1]>>
    /\ fnCall.out.down = <<>>

\* C15: the up and down lists of classify share no gene, and every gene in
\* either has an adjusted p-value below the threshold.
C15_DisjointAndSignificant ==
    Classified =>
        /\ GenesOf(fnCall.out.up) \cap GenesOf(fnCall.out.down) = {}
        /\ \A i \in 1..Len(fnCall.out.up) : fnCall.out.up[i].p < fnCall.in.thr
        /\ \A i \in 1..Len(fnCall.out.down) : fnCall.out.down[i].p < fnCall.in.thr

C15_Witness ==
    /\ Classified
    /\ fnCall.out.up # <<>>
    /\ fnCall.out.down # <<>>
    /\ \E i \in 1..Len(fnCall.in.data) : fnCall.in.data[i].p >= fnCall.in.thr

\* ================================================= runDeseq2: engine input
MaxSamples == 3
SampleNames == 1..MaxSamples
Labels == {"A", "B", "C"}

\* const samples = Object.keys(metadata); the count table gets one column per
\* entry of samples (matrix[gene][sample] ?? 0), colData one row per entry,
\* and the script keeps count_data_raw[, rownames(col_data)]
Deseq2Columns(matrixSamples, metadata, A, B) == DOMAIN metadata
\* columns whose cells all come from `?? 0`
Deseq2ZeroFilled(matrixSamples, metadata, A, B) == DOMAIN metadata \ matrixSamples

Deseq2Init ==
    /\ SessionInit
    /\ \E ms \in SUBSET SampleNames, D \in SUBSET SampleNames, A \in Labels, B \in Labels :
          \E md \in [D -> Labels] :
             /\ A # B
             /\ fnCall = [fn |-> "runDeseq2",
                          in |-> [matrixSamples |-> ms, metadata |-> md, A |-> A, B |-> B],
                          done |-> FALSE, out |-> <<>>]

Deseq2Input ==
    /\ fnCall.fn = "runDeseq2"
    /\ ~fnCall.done
    /\ LET in == fnCall.in IN
       fnCall' = [fnCall EXCEPT
                    !.done = TRUE,
                    !.out = [columns |-> Deseq2Columns(in.matrixSamples, in.metadata, in.A, in.B),
                             zeroFilled |-> Deseq2ZeroFilled(in.matrixSamples, in.metadata, in.A, in.B)]]
    /\ UNCHANGED sessionVars

Deseq2Next == Deseq2Input

Deseq2Spec == Deseq2Init /\ [][Deseq2Next]_vars

\* C16: the sample columns handed to the DE engine for a comparison (A, B)
\* are exactly the samples present in the count matrix and labelled A or B
\* in the metadata.
C16_OnlyComparedSamples ==
    (fnCall.fn = "runDeseq2" /\ fnCall.done) =>
        fnCall.out.columns =
            {s \in fnCall.in.matrixSamples \cap DOMAIN fnCall.in.metadata :
                fnCall.in.metadata[s] \in {fnCall.in.A, fnCall.in.B}}

\* ============================================== specification of the parser
ParseInit ==
    /\ SessionInit
    /\ \E k \in 0..MaxRows :
          \E ids \in [1..k -> RawIds], cells \in [1..k -> [Columns -> CellValues]] :
             fnCall = [fn |-> "parseCountMatrix",
                       in |-> [lines |-> [i \in 1..k |-> [id |-> ids[i], cells |-> cells[i]]]],
                       done |-> FALSE, out |-> <<>>]

Parse ==
    /\ fnCall.fn = "parseCountMatrix"
    /\ ~fnCall.done
    /\ fnCall' = [fnCall EXCEPT !.done = TRUE, !.out = ParseCountMatrix(fnCall.in.lines)]
    /\ UNCHANGED sessionVars

\* handleCountMatrixUpload: a non-symbol namespace is translated with the map
\* convertIdsToSymbols got for Object.keys(matrix)
Remap ==
    /\ fnCall.fn = "parseCountMatrix"
    /\ fnCall.done
    /\ fnCall.out.identifierType \notin {"symbol", "unknown"}
    /\ \E D \in SUBSET DOMAIN fnCall.out.matrix :
          \E conversionMap \in [D -> Symbols] :
             fnCall' = [fn |-> "remapMatrixToSymbols",
                        in |-> [lines |-> fnCall.in.lines,
                                identifierType |-> fnCall.out.identifierType,
                                matrix |-> fnCall.out.matrix,
                                conversionMap |-> conversionMap],
                        done |-> TRUE,
                        out |-> [matrix |-> RemapMatrixToSymbols(
                                               FirstSeen([i \in 1..Len(fnCall.in.lines) |->
                                                             fnCall.in.lines[i].id],
                                                         fnCall.out.identifierType),
                                               fnCall.out.matrix, conversionMap, <<>>)]]
    /\ UNCHANGED sessionVars

ParseNext == Parse \/ Remap

ParseSpec == ParseInit /\ [][ParseNext]_vars

\* the identifier a line ends up under after normalization (and translation)
FinalId(id, idType) == IF idType = "ensembl" THEN TrimVersion(id) ELSE id
Numeric(v) == IF v = NotANumber THEN 0 ELSE v
RECURSIVE SumOfLines(_, _, _)
SumOfLines(lines, group, c) ==
    IF lines = <<>> THEN 0
    ELSE (IF group[Len(lines)] THEN Numeric(lines[Len(lines)].cells[c]) ELSE 0)
           + SumOfLines(SubSeq(lines, 1, Len(lines) - 1), group, c)

\* C17: in the matrix parseCountMatrix returns, and in the one
\* remapMatrixToSymbols makes of it, the count of every row for every sample
\* is the sum of the counts of the input lines that end up under that row's
\* identifier.
C17_CollapseSums ==
    /\ (fnCall.fn = "parseCountMatrix" /\ fnCall.done) =>
          LET lines == fnCall.in.lines
              t == fnCall.out.identifierType
          IN \A f \in DOMAIN fnCall.out.matrix : \A c \in Columns :
                CountOr0(fnCall.out.matrix[f], c)
                   = SumOfLines(lines, [i \in 1..Len(lines) |-> FinalId(lines[i].id, t) = f], c)
    /\ fnCall.fn = "remapMatrixToSymbols" =>
          LET lines == fnCall.in.lines
              t == fnCall.in.identifierType
              cm == fnCall.in.conversionMap
          IN \A s \in DOMAIN fnCall.out.matrix : \A c \in Columns :
                CountOr0(fnCall.out.matrix[s], c)
                   = SumOfLines(lines,
                                [i \in 1..Len(lines) |->
                                    /\ FinalId(lines[i].id, t) \in DOMAIN cm
                                    /\ cm[FinalId(lines[i].id, t)] = s], c)

\* C18: every row of the matrix parseCountMatrix returns, and of the one
\* remapMatrixToSymbols makes of it, has a count for every sample column of
\* the header.
C18_RowsHaveAllSamples ==
    (fnCall.fn \in {"parseCountMatrix", "remapMatrixToSymbols"} /\ fnCall.done) =>
        \A f \in DOMAIN fnCall.out.matrix : DOMAIN fnCall.out.matrix[f] = Columns

\* ====================================================== detectGeneIdentifier
MaxBlocks == 3
\* an id list is given as runs of one identifier
DetectIds == {"ENSG00000141510", "7157", "P04637", "TP53", "unnamed_transcript"}
RunLengths == {1, 30, 50, 70}

RECURSIVE Expand(_)
Expand(runs) ==
    IF runs = <<>> THEN <<>>
    ELSE [i \in 1..Head(runs)[2] |-> Head(runs)[1]] \o Expand(Tail(runs))

DetectInit ==
    /\ SessionInit
    /\ \E k \in 0..MaxBlocks :
          \E runs \in [1..k -> DetectIds \X RunLengths] :
             fnCall = [fn |-> "detectGeneIdentifier", in |-> [ids |-> Expand(runs)],
                       done |-> FALSE, out |-> <<>>]

Detect ==
    /\ fnCall.fn = "detectGeneIdentifier"
    /\ ~fnCall.done
    /\ fnCall' = [fnCall EXCEPT !.done = TRUE, !.out = DetectGeneIdentifier(fnCall.in.ids)]
    /\ UNCHANGED sessionVars

DetectNext == Detect

DetectSpec == DetectInit /\ [][DetectNext]_vars

Detected == fnCall.fn = "detectGeneIdentifier" /\ fnCall.done
\* the first 100 ids
Sampled == SubSeq(fnCall.in.ids, 1, IF Len(fnCall.in.ids) < 100 THEN Len(fnCall.in.ids) ELSE 100)
\* number of sampled ids that match the pattern of ns
OwnMatches(ns) == Cardinality({i \in 1..Len(Sampled) : Matches(ns, Sampled[i])})
\* number of sampled ids whose first matching pattern, tried in the order
\* Ensembl, Entrez, UniProt, Symbol, is that of ns
FirstMatches(ns) ==
    Cardinality({i \in 1..Len(Sampled) :
        /\ Matches(ns, Sampled[i])
        /\ \A o \in CASE ns = "ensembl" -> {}
                      [] ns = "entrez" -> {"ensembl"}
                      [] ns = "uniprot" -> {"ensembl", "entrez"}
                      [] ns = "symbol" -> {"ensembl", "entrez", "uniprot"} :
              ~Matches(o, Sampled[i])})
\* the first namespace, in the order Ensembl, UniProt, Entrez, Symbol, whose
\* count clears its threshold (70%, 70%, 70%, 50% of the sampled ids)
FirstClearing(count) ==
    LET n == Len(Sampled) IN
    IF 10 * count["ensembl"] > 7 * n THEN "ensembl"
    ELSE IF 10 * count["uniprot"] > 7 * n THEN "uniprot"
    ELSE IF 10 * count["entrez"] > 7 * n THEN "entrez"
    ELSE IF 10 * count["symbol"] > 5 * n THEN "symbol"
    ELSE "unknown"

\* C19 as stated: the result is the first namespace whose fraction of sampled
\* ids matching that namespace's own pattern exceeds its threshold; so it is
\* 'symbol' whenever no other namespace clears 70% and more than half of the
\* sampled ids match the symbol pattern.
C19_OwnPatternFractions == Detected => fnCall.out = FirstClearing([ns \in {"ensembl", "uniprot", "entrez", "symbol"} |-> OwnMatches(ns)])

\* C19 amended: every sampled id is counted for one namespace only, the first
\* of Ensembl, Entrez, UniProt, Symbol whose pattern it matches; the result is
\* the first namespace in the order Ensembl, UniProt, Entrez, Symbol whose
\* count exceeds its threshold, 'unknown' when none does.
C19_FirstMatchFractions == Detected => fnCall.out = FirstClearing([ns \in {"ensembl", "uniprot", "entrez", "symbol"} |-> FirstMatches(ns)])

C19_Witness ==
    /\ Detected
    /\ Len(fnCall.in.ids) > 100
    /\ 10 * OwnMatches("symbol") > 5 * Len(Sampled)
    /\ fnCall.out = "unknown"

\* ------------------------------------------------ translation of identifiers

\* the step in which the translation of an upload's identifiers came back
Converted == lastOp'.op = "upload_converted"

\* C20: when no identifier of an uploaded non-symbol matrix is translated the
\* upload ends with an error, countMatrix null and the run control disabled;
\* when only some identifiers are translated the others are dropped and no
\* error is set.
C20_NothingTranslatedIsTerminal ==
    [][Converted =>
        LET conversionMap == lastOp'.acc[2]
            rows == lastOp'.acc[3]
        IN IF rows = {}
           THEN /\ error' # NoError
                /\ countMatrix' = 0
                /\ ~(countMatrix' # 0 /\ sampleMetadata' # 0)
           ELSE /\ error' = error
                /\ countMatrix' = lastOp'.acc[1]
                /\ rows = {conversionMap[id] : id \in DOMAIN conversionMap}]_vars

\* ==================================== specification of the upload's progress
\* The upload handler with the steps it depends on.  The runtime resolves
\* file.text() and the engine's start-up eventually (weak fairness); nothing
\* obliges the translation service to answer the `fetch` of
\* convertIdsToSymbols, and the user is free to do nothing.
UploadNext ==
    \/ \E t \in tasks, ok \in BOOLEAN : InitBringup(t, ok)
    \/ \E t \in tasks, ok \in BOOLEAN : InitInstall(t, ok)
    \/ \E f \in MatrixFiles : HandleCountMatrixUpload(f)
    \/ \E t \in tasks : UploadRead(t)
    \/ \E t \in tasks, conversionMap \in ConversionMaps : UploadConvert(t, conversionMap)
    \/ ClearData

UploadFairness ==
    /\ WF_vars(\E t \in tasks, ok \in BOOLEAN : InitBringup(t, ok))
    /\ WF_vars(\E t \in tasks, ok \in BOOLEAN : InitInstall(t, ok))
    /\ WF_vars(\E t \in tasks : UploadRead(t))

UploadLiveSpec == Init /\ [][UploadNext]_vars /\ UploadFairness

\* an upload is waiting for convertIdsToSymbols
AwaitingTranslation == \E t \in tasks : t.kind = "upload" /\ t.phase = "convert"

\* C21: an upload that waits for the translation service does not wait for
\* ever: also when the service never answers, the wait ends (with a timeout
\* error) and the handler terminates.
C21_TranslationEnds == AwaitingTranslation ~> ~AwaitingTranslation

\* ============================================ specification of getClusteredOrder
MaxSubset == 4
GeneNames == {"g1", "g2", "g3", "g4"}

\* Object.keys(relevantMatrix): the requested symbols that have a row in the
\* matrix, in the order they were requested
RelevantMatrix(matrix, geneSymbols) == SelectSeq(geneSymbols, LAMBDA g : g \in matrix)

\* if (genes.length < 3)
TooFewBelowTwo(genes) == Len(genes) < 2

TooFew(genes) == Len(genes) < ClusterMin

\* getClusteredOrder(matrix, geneSymbols, method).  matrix is the set of its
\* row names; env says whether BiocManager is installed, whether
\* ensurePackage('vsn') returns and whether the clustering script evaluates.
\* evaluated: the clustering script was handed to the engine.
GetClusteredOrder(matrix, geneSymbols, method, env) ==
    IF ~env.initialized \/ ~env.vsn
    THEN [result |-> "rejected", order |-> <<>>, evaluated |-> FALSE]
    ELSE LET genes == RelevantMatrix(matrix, geneSymbols) IN
         IF TooFew(genes)
         THEN [result |-> "resolved", order |-> geneSymbols, evaluated |-> FALSE]
         ELSE IF ~env.evalOk
         THEN [result |-> "rejected", order |-> <<>>, evaluated |-> TRUE]
         ELSE [result |-> "resolved", order |-> ClusterOrder(genes, method),
               evaluated |-> TRUE]

ClusterInit ==
    /\ SessionInit
    /\ \E k \in 0..MaxSubset : \E geneSymbols \in [1..k -> GeneNames] :
       \E matrix \in SUBSET GeneNames, method \in Methods :
       \E initialized \in BOOLEAN, vsn \in BOOLEAN, evalOk \in BOOLEAN :
          /\ \A i \in 1..k : \A j \in 1..k : geneSymbols[i] = geneSymbols[j] => i = j
          /\ fnCall = [fn |-> "getClusteredOrder",
                       in |-> [matrix |-> matrix, geneSymbols |-> geneSymbols,
                               method |-> method,
                               env |-> [initialized |-> initialized, vsn |-> vsn,
                                        evalOk |-> evalOk]],
                       done |-> FALSE, out |-> <<>>]

GetOrder ==
    /\ fnCall.fn = "getClusteredOrder" /\ ~fnCall.done
    /\ fnCall' = [fnCall EXCEPT !.done = TRUE,
                                !.out = GetClusteredOrder(fnCall.in.matrix, fnCall.in.geneSymbols,
                                                          fnCall.in.method, fnCall.in.env)]
    /\ UNCHANGED sessionVars

ClusterNext == GetOrder

ClusterSpec == ClusterInit /\ [][ClusterNext]_vars

Ordered == fnCall.fn = "getClusteredOrder" /\ fnCall.done

C23_PermutationOfRequest ==
    (Ordered /\ fnCall.out.result = "resolved") =>
        /\ Len(fnCall.out.order) = Len(fnCall.in.geneSymbols)
        /\ SeqToSet(fnCall.out.order) = SeqToSet(fnCall.in.geneSymbols)

\* ------------------------------------------------ the Heatmap's clustering
\* C24: when the clustering request of the mounted Heatmap is rejected, its
\* ordering becomes the input order (the up genes followed by the down genes
\* it was given), and degResults, the GSEA cache and the application's error
\* are left as they were.
C24_ClusterFailureFallsBack ==
    [][(lastOp'.op = "cluster_failed" /\ lastOp'.wasDone) =>
        /\ hmOrdered' = [genes |-> InitialGenes(currentAnalysis'), by |-> "input"]
        /\ hmOrdered'.genes = lastOp'.acc
        /\ degResults' = degResults
        /\ gseaResults' = gseaResults
        /\ error' = error]_vars

C24_Witness ==
    /\ lastOp.op = "cluster_failed"
    /\ lastOp.wasDone
    /\ hmMounted
    /\ hmOrdered = [genes |-> <<"g1", "g2", "g3">>, by |-> "input"]
    /\ hmError = "Clustering failed"
    /\ degResults # <<>>
    /\ error = NoError

\* --------------------------------------------- results and their inputs
\* C25: stored DE results belong to the current inputs: when degResults is
\* not null, countMatrix and sampleMetadata are not null and every stored
\* result list was computed from exactly these two.
C25_ResultsOfCurrentInputs ==
    degResults # <<>> =>
        /\ countMatrix # 0
        /\ sampleMetadata # 0
        /\ \A i \in 1..Len(degResults) :
              /\ degResults[i].val.m = countMatrix
              /\ degResults[i].val.s = sampleMetadata

\* C26: every entry of the GSEA cache for (c, d) was computed from the DE
\* result list now stored as degResults[c]; in particular no entry is there
\* while degResults has no list for c.
C26_CacheOfCurrentResults ==
    \A e \in gseaResults :
        /\ degResults # <<>>
        /\ e.cmp \in SeqToSet(Keys(degResults))
        /\ e.res.src = Lookup(degResults, e.cmp)

\* the up and down lists an AnalysisResult's significantGenes holds
SigLists(sig) == [up |-> UpGenes(sig.data, sig.thr), down |-> DownGenes(sig.data, sig.thr)]

\* C27: the displayed analysis belongs to the selected comparison and
\* threshold: significantGenes, when carried, are those of
\* degResults[currentComparison] at pValueThreshold, and gseaData, when
\* carried, is the cache entry of currentComparison for its database.
C27_DisplayedIsSelected ==
    /\ currentAnalysis.sig # NoSig =>
          /\ Lookup(degResults, currentComparison) # NoVal
          /\ SigLists(currentAnalysis.sig)
                = SigLists(SignificantGenes(Lookup(degResults, currentComparison),
                                            pValueThreshold))
    /\ currentAnalysis.gsea # NoGsea =>
          /\ CacheHit(gseaResults, currentComparison, currentAnalysis.gsea.db)
          /\ Cached(gseaResults, currentComparison, currentAnalysis.gsea.db).res
                = currentAnalysis.gsea.results

\* C28: currentComparison is null exactly when degResults is null, a non-null
\* currentComparison is a key of degResults, and the step that publishes a
\* batch's results selects the first comparison of the batch.
C28_ComparisonIsAKey ==
    [][/\ (currentComparison' = NoName) <=> (degResults' = <<>>)
       /\ currentComparison' # NoName => currentComparison' \in SeqToSet(Keys(degResults'))
       /\ \A t \in tasks : Publishes(t) =>
             currentComparison' = ComparisonName(t.comps[1])]_vars

C28_Witness ==
    /\ lastOp.op = "primary_done"
    /\ Keys(degResults) = <<"B_vs_A", "C_vs_A">>
    /\ currentComparison = "B_vs_A"
    /\ currentAnalysis = NoAnalysis

\* ------------------------------------------------------ package status
\* the changes of one package's status a step may make
StatusMoves == {<<"not_installed", "installing">>,
                <<"installing", "installed">>,
                <<"installing", "not_installed">>}

\* a call that was evaluating the install command of package p and is past
\* it after the step
InstallEnds(p) ==
    \E t \in Installs(tasks, p) :
        \A u \in tasks' : u.id = t.id => ~(u.kind = t.kind /\ u.phase = "install" /\ u.pkg = p)

\* C29: a package's status only moves not_installed -> installing ->
\* installed, or installing -> not_installed; installed is never left; and a
\* package becomes installed only in the step in which its install command
\* ends.
C29_StatusMoves ==
    [][\A p \in Packages :
          /\ packageStatus'[p] # packageStatus[p] =>
                <<packageStatus[p], packageStatus'[p]>> \in StatusMoves
          /\ packageStatus[p] = "installed" => packageStatus'[p] = "installed"
          /\ (packageStatus'[p] = "installed" /\ packageStatus[p] # "installed") =>
                InstallEnds(p)]_vars

C29_Witness ==
    /\ packageStatus["BiocManager"] = "installed"
    /\ packageStatus["DESeq2"] = "installed"
    /\ packageStatus["clusterProfiler"] = "not_installed"
    /\ error = "GSEA analysis failed"

\* ------------------------------------------- the Heatmap's requests
\* getClusteredOrder calls of the mounted Heatmap that have not settled
LiveClusters(ts) == {t \in ts : t.kind = "cluster" /\ t.live}
\* the mounted Heatmap issues a clustering request in this step
Issued == \E t \in LiveClusters(tasks') : \A u \in LiveClusters(tasks) : u.id # t.id

\* C30: at most one clustering request of the Heatmap is in flight, and the
\* mounted Heatmap issues a request only in a step that changes its linkage
\* method, its gene subset or the count matrix.
C30_OneRequestPerChange ==
    [][/\ Cardinality(LiveClusters(tasks')) <= 1
       /\ (hmMounted /\ hmMounted' /\ Issued) =>
             \/ hmMethod' # hmMethod
             \/ InitialGenes(currentAnalysis') # InitialGenes(currentAnalysis)
             \/ countMatrix' # countMatrix]_vars
====
